---------------------------- MODULE Spec2Model ----------------------------
(* Wokwi autograder runners: tools/autograde.py (v1, serial only),        *)
(* tools/autogradev2.py (v2, serial + probes), tools/autogradev3.py (v3,  *)
(* probes only).  One asyncio event loop runs the main coroutine and the  *)
(* Stream Capture, Stimulus Driver and Probe Sampler tasks; every `await` *)
(* of a simulator call is a point where another task may run.             *)
(*                                                                        *)
(* Times are integers counted in ticks of half a microsecond, so that the *)
(* "%.6f" rendering of a timestamp is a real rounding.                    *)
EXTENDS Integers, Sequences, FiniteSets, TLC

VARIABLES
    runner,          \* which script runs: "v1", "v2" or "v3"
    tokenSet,        \* os.getenv("WOKWI_CLI_TOKEN") is non-empty
    firmwareFound,   \* build/*.bin exists
    elfExists,       \* the paired .elf exists
    pc,              \* position of the main coroutine
    exitCode,        \* process exit status, NotExited while running
    raised,          \* the exception that left the main coroutine, "" if none
    graded,          \* the verdict was computed
    connected,       \* client.connect() returned
    disconnects,     \* number of client.disconnect() calls issued
    simUsed,         \* some simulator call has been issued
    uploads,         \* upload_file calls that returned
    simStarted,      \* start_simulation returned
    simTime,         \* the simulated clock
    timedOut,        \* asyncio.wait_for raised TimeoutError
    done_event,      \* the asyncio.Event
    capPc,           \* Stream Capture task
    delivered,       \* raw lines the line source has yielded so far
    artifacts,       \* the artifact files that exist
    serialFile,      \* artifacts/serial.txt: its characters
    captured,        \* v1: the captured list
    drvPc,           \* Stimulus Driver task
    drvI,            \* index of the event being driven
    drvWaitFailed,   \* some wait of the Driver raised
    ctrlCalls,       \* set_control calls issued: <<event index, value>>
    ctrlInFlight,    \* set_control calls awaiting their reply
    ctrlFailed,      \* some set_control call raised
    smpPc,           \* Probe Sampler task
    smpK,            \* index into the schedule
    row,             \* the row being built
    reads,           \* outcome of every read_pin: <<k, p, outcome>>
    probesFile,      \* artifacts/probes.csv: its rows, each a sequence of cells
    BUTTON_PRESSES,  \* the stimulus event list
    PROBES,          \* the probe list (labels)
    probe_times,     \* the schedule handed to the Sampler
    IMPORTANT_TIMES, NUM_RANDOM_TIMES, RAND_WINDOW, RANDOM_SEED,
    rngState,        \* state of the module-level random generator
    rand_times,      \* the random draws of the last make_probe_schedule
    rngDraws,        \* draws other code has made from the generator
    schedCalls,      \* every make_probe_schedule call: other draws made
                     \* before it, random.seed calls made, schedule returned
    goldens,         \* the golden files that exist
    expSerial,       \* tests/expected_serial.txt: its lines
    expProbes,       \* tests/expected_probes.csv: its rows
    serial_pass, probes_pass,
    diffOut          \* the diffs printed: [artifact, lines]

vars == << runner, tokenSet, firmwareFound, elfExists, pc, exitCode, raised, graded,
           connected, disconnects, simUsed, uploads, simStarted, simTime, timedOut,
           done_event, capPc, delivered, artifacts, serialFile, captured,
           drvPc, drvI, drvWaitFailed, ctrlCalls, ctrlInFlight, ctrlFailed,
           smpPc, smpK, row, reads, probesFile,
           BUTTON_PRESSES, PROBES, probe_times,
           IMPORTANT_TIMES, NUM_RANDOM_TIMES, RAND_WINDOW, RANDOM_SEED,
           rngState, rand_times, rngDraws, schedCalls, goldens, expSerial, expProbes, serial_pass, probes_pass,
           diffOut >>

-----------------------------------------------------------------------------
(* Bounds of the model *)

MaxLines == 2        \* lines the line source yields in one run
MaxRandom == 2       \* largest NUM_RANDOM_TIMES drawn
MaxProbes == 2       \* longest probe list drawn
MaxRows == 2         \* longest schedule drawn for the Sampler alone
MaxEvents == 2       \* longest stimulus list drawn for the Driver alone
MaxCalls == 2        \* calls of make_probe_schedule in one process
MaxDraws == 2        \* draws other code makes from the generator
MaxExpected == 2     \* longest golden line list drawn for subseq alone
MaxActual == 5       \* longest captured line list drawn for subseq alone

TicksPerMicro == 2   \* resolution of the modelled clock
RngModulus == 4      \* number of states of the modelled random generator

(* Program constants *)

Ms(ms) == ms * 1000 * TicksPerMicro

(* the 0.002 s added around every press and release time *)
GuardBand == Ms(2)

NotExited == -1
NoSeed == -1         \* RANDOM_SEED = None
ERR == "ERR"
FAIL == "FAIL"

-----------------------------------------------------------------------------
(* Generic helpers *)

Max(a, b) == IF a >= b THEN a ELSE b

Range(s) == { s[i] : i \in 1..Len(s) }

RECURSIVE SetToSortedSeq(_)
SetToSortedSeq(S) ==
    IF S = {} THEN << >>
    ELSE LET m == CHOOSE x \in S : \A y \in S : x <= y
         IN  << m >> \o SetToSortedSeq(S \ {m})


-----------------------------------------------------------------------------
(* Text: a line is a sequence of characters; CR, LF and SP stand for the  *)
(* carriage return, the line feed and the space.                          *)

Whitespace == { "SP", "CR", "LF" }

RECURSIVE RStrip(_, _)
RStrip(s, chars) ==
    IF s # << >> /\ s[Len(s)] \in chars
    THEN RStrip(SubSeq(s, 1, Len(s) - 1), chars)
    ELSE s

RECURSIVE LStrip(_, _)
LStrip(s, chars) ==
    IF s # << >> /\ Head(s) \in chars THEN LStrip(Tail(s), chars) ELSE s

Strip(s) == LStrip(RStrip(s, Whitespace), Whitespace)

UpperChar(c) ==
    CASE c = "d" -> "D"
      [] c = "o" -> "O"
      [] c = "n" -> "N"
      [] c = "e" -> "E"
      [] c = "h" -> "H"
      [] c = "i" -> "I"
      [] OTHER -> c

Upper(s) == [ i \in 1..Len(s) |-> UpperChar(s[i]) ]

SERIAL_DONE_TOKEN == << "D", "O", "N", "E" >>

(* raw.decode(errors="replace").rstrip("\r\n") *)
DecodeLine(raw) == RStrip(raw, { "CR", "LF" })

IsDoneLineBare(line) == Upper(line) = SERIAL_DONE_TOKEN

(* line.strip().upper() == SERIAL_DONE_TOKEN *)
IsDoneLine(line) == Upper(Strip(line)) = SERIAL_DONE_TOKEN

(* str.splitlines() on a file read in text mode: CR, LF and CR LF each end *)
(* a line, and a trailing line end yields no empty last line.             *)
RECURSIVE SplitFrom(_, _)
SplitFrom(s, cur) ==
    IF s = << >> THEN (IF cur = << >> THEN << >> ELSE << cur >>)
    ELSE IF Head(s) = "CR" /\ Len(s) >= 2 /\ s[2] = "LF"
         THEN << cur >> \o SplitFrom(Tail(Tail(s)), << >>)
    ELSE IF Head(s) \in { "CR", "LF" }
         THEN << cur >> \o SplitFrom(Tail(s), << >>)
    ELSE SplitFrom(Tail(s), Append(cur, Head(s)))

SplitLines(s) == SplitFrom(s, << >>)

(* f"{t:.6f}": t ticks rendered in whole microseconds, round half to even *)
Fmt6(t) ==
    LET q == t \div TicksPerMicro
        r == t % TicksPerMicro
    IN  ToString(IF 2 * r < TicksPerMicro THEN q
                 ELSE IF 2 * r > TicksPerMicro THEN q + 1
                 ELSE IF q % 2 = 0 THEN q ELSE q + 1)

-----------------------------------------------------------------------------
(* Schedule Builder *)

(* random.seed(s) *)
RngSeed(s) == s % RngModulus

(* one step of the generator *)
RngNext(st) == (5 * st + 3) % RngModulus

(* random.uniform(t_min, t_max) from generator state st *)
RngUniform(st, window) ==
    window[1] + ((window[2] - window[1]) * RngNext(st)) \div RngModulus

(* [random.uniform(...) for _ in range(n)] starting in state st:         *)
(* the draws and the generator state they leave                          *)
RECURSIVE RandTimes(_, _, _)
RandTimes(st, window, n) ==
    IF n = 0 THEN [ draws |-> << >>, rng |-> st ]
    ELSE LET rest == RandTimes(RngNext(st), window, n - 1)
         IN  [ draws |-> << RngUniform(st, window) >> \o rest.draws,
               rng |-> rest.rng ]

SortedNoDedup(fixed, draws) ==
    LET all == fixed \o draws
        RECURSIVE Ins(_, _)
        Ins(x, s) == IF s = << >> THEN << x >>
                     ELSE IF x <= Head(s) THEN << x >> \o s
                     ELSE << Head(s) >> \o Ins(x, Tail(s))
        RECURSIVE Sort(_)
        Sort(s) == IF s = << >> THEN << >> ELSE Ins(Head(s), Sort(Tail(s)))
    IN  Sort(all)

(* sorted(set(IMPORTANT_TIMES + rand_times)) *)
SortedUnique(fixed, draws) == SetToSortedSeq(Range(fixed \o draws))


(* make_probe_schedule, from the generator state st left by the seeding:  *)
(* the schedule, the draws and the generator state afterwards             *)
make_probe_schedule(st, fixed, n, window) ==
    LET r == RandTimes(st, window, n)
    IN  [ times |-> SortedUnique(fixed, r.draws),
          draws |-> r.draws,
          rng   |-> r.rng ]

(* a schedule builder that draws from the generator as it finds it *)
SeedStatesUnseeded == { rngState }

(* The generator states the seeding step can leave: v2 seeds only when    *)
(* RANDOM_SEED is not None, v3 always calls random.seed, and              *)
(* random.seed(None) seeds from the system's entropy.                     *)
SeedStates ==
    IF RANDOM_SEED # NoSeed THEN { RngSeed(RANDOM_SEED) }
    ELSE IF runner = "v3" THEN 0..(RngModulus - 1)
    ELSE { rngState }

(* the random.seed calls one make_probe_schedule call makes *)
SeedCalls == IF RANDOM_SEED # NoSeed \/ runner = "v3" THEN 1 ELSE 0

(* one call of make_probe_schedule with the generator seeded to st *)
CallSchedule(st) ==
    LET m == make_probe_schedule(st, IMPORTANT_TIMES, NUM_RANDOM_TIMES, RAND_WINDOW)
    IN  /\ probe_times' = m.times
        /\ rand_times' = m.draws
        /\ rngState' = m.rng
        /\ schedCalls' = Append(schedCalls, [ drawn |-> rngDraws,
                                              seeded |-> SeedCalls,
                                              times |-> m.times ])

-----------------------------------------------------------------------------
(* Configuration of a run *)

Event(p, r) == [ press |-> p, release |-> r ]

(* autogradev2.py / autogradev3.py BUTTON_PRESSES *)
DefaultPresses == << Event(Ms(500), Ms(700)), Event(Ms(900), Ms(1100)) >>

(* autograde.py: press_at(1.1, 1.3); press_at(1.7, 2.1) *)
V1Presses == << Event(Ms(1100), Ms(1300)), Event(Ms(1700), Ms(2100)) >>

DefaultProbes == << "LED", "BTN", "D5" >>
DefaultImportantTimes == << Ms(480), Ms(700), Ms(900), Ms(1100) >>
DefaultWindow == << Ms(200), Ms(1600) >>
DefaultSeed == 1337

RawLines ==
    { << "h", "i", "LF" >>,
      << "SP", "d", "o", "n", "e", "CR", "LF" >>,
      << "D", "O", "N", "E", "!", "LF" >> }

PinValues == { "0", "1" }

Running == { "ready", "reading", "pre", "pressRet", "post", "hold",
             "releaseRet", "post2", "wait", "read" }

Finished == { "done", "ended", "failed", "cancelled" }

(* Task.cancel() on a task that has not finished *)
Cancel(p) == IF p \in Running THEN "cancelled" ELSE p

(* nothing has run yet *)
IdleTasks ==
    /\ exitCode = NotExited /\ raised = "" /\ graded = FALSE
    /\ connected = FALSE /\ disconnects = 0 /\ simUsed = FALSE /\ uploads = 0
    /\ simStarted = FALSE /\ simTime = 0 /\ timedOut = FALSE
    /\ done_event = FALSE
    /\ capPc = "none" /\ delivered = << >>
    /\ drvPc = "none" /\ drvI = 0 /\ drvWaitFailed = FALSE
    /\ ctrlCalls = << >> /\ ctrlInFlight = 0 /\ ctrlFailed = FALSE
    /\ smpPc = "none" /\ smpK = 0 /\ row = << >> /\ reads = << >>
    /\ probe_times = << >> /\ rand_times = << >> /\ schedCalls = << >>
    /\ rngDraws = 0
    /\ serial_pass = FALSE /\ probes_pass = FALSE /\ diffOut = {}

Idle ==
    /\ IdleTasks
    /\ artifacts = {} /\ serialFile = << >> /\ captured = << >>
    /\ probesFile = << >>
    /\ goldens = {} /\ expSerial = << >> /\ expProbes = << >>

(* A whole run is explored with the scripts' stimulus lists, their first  *)
(* probe, their first important time and as many random times; the       *)
(* Sampler and the Schedule Builder are explored over drawn lists in      *)
(* SpecSampler and SpecSched.                                             *)
Init ==
    /\ Idle
    /\ runner \in { "v1", "v2", "v3" }
    /\ tokenSet \in BOOLEAN
    /\ firmwareFound \in BOOLEAN
    /\ elfExists \in { e \in BOOLEAN : e => firmwareFound }
    /\ pc = IF runner = "v1" THEN "import" ELSE "token"
    /\ BUTTON_PRESSES = IF runner = "v1" THEN V1Presses ELSE DefaultPresses
    /\ PROBES = IF runner = "v1" THEN << >> ELSE << Head(DefaultProbes) >>
    /\ IMPORTANT_TIMES = IF runner = "v1" THEN << >>
                         ELSE << Head(DefaultImportantTimes) >>
    /\ NUM_RANDOM_TIMES = IF runner = "v1" THEN 0 ELSE Len(IMPORTANT_TIMES)
    /\ RAND_WINDOW = DefaultWindow
    /\ RANDOM_SEED = DefaultSeed
    /\ rngState \in 0..(RngModulus - 1)


-----------------------------------------------------------------------------
(* Variable groups *)

envVars == << runner, tokenSet, firmwareFound, elfExists, BUTTON_PRESSES,
              PROBES, IMPORTANT_TIMES, NUM_RANDOM_TIMES, RAND_WINDOW, RANDOM_SEED >>
capData == << delivered, serialFile, captured >>
drvData == << drvI, drvWaitFailed, ctrlCalls, ctrlInFlight, ctrlFailed >>
smpData == << smpK, row, reads, probesFile >>
schedVars == << probe_times, rngState, rand_times, rngDraws, schedCalls >>
goldenVars == << goldens, expSerial, expProbes >>
gradeVars == << serial_pass, probes_pass, graded, diffOut >>
connVars == << connected, disconnects, simUsed, uploads, simStarted >>
taskPcs == << capPc, drvPc, smpPc >>

exitVars == << exitCode, raised >>

(* Exception exc leaves the main coroutine and the process ends with      *)
(* status code: asyncio.run cancels the tasks still running before the   *)
(* interpreter exits.                                                     *)
ExitWith(code, exc) ==
    /\ pc' = "exited"
    /\ exitCode' = code
    /\ raised' = exc
    /\ capPc' = Cancel(capPc)
    /\ drvPc' = Cancel(drvPc)
    /\ smpPc' = Cancel(smpPc)

(* An exception other than SystemExit leaves the main coroutine: the      *)
(* interpreter prints the traceback and exits with status 1.              *)
Uncaught(exc) == ExitWith(1, exc)

Crash == Uncaught("Exception")

Alive == pc # "exited"

(* Every task created so far has run up to its first await: a created     *)
(* task gets its first slice as soon as the main coroutine suspends, so   *)
(* before any call the main coroutine awaits can return.                  *)
TasksStarted == capPc # "ready" /\ drvPc # "ready" /\ smpPc # "ready"

-----------------------------------------------------------------------------
(* Main coroutine: setup *)

(* golden serial files tried besides a copy of what was captured *)
GoldenSerials ==
    { << >>,
      << << "h", "i" >> >>,
      << << "h", "i" >>, << "SP", "d", "o", "n", "e" >> >> }

(* autograde.py line 8, run at import: a missing golden file raises       *)
V1Import ==
    /\ pc = "import"
    /\ \/ /\ goldens' = {} /\ UNCHANGED << expSerial, expProbes >>
          /\ Uncaught("FileNotFoundError")
       \/ /\ \E g \in GoldenSerials : expSerial' = g
          /\ goldens' = { "serial" } /\ UNCHANGED expProbes
          /\ pc' = "token"
          /\ UNCHANGED << exitVars, taskPcs >>
    /\ UNCHANGED << envVars, capData, drvData, smpData, schedVars, gradeVars,
                    connVars, simTime, timedOut, done_event, artifacts >>

(* SystemExit with a message: the message goes to stderr, the status is 1 *)
TokenMissingStatus == 1

CheckToken ==
    /\ pc = "token"
    /\ IF tokenSet
       THEN pc' = "firmware" /\ UNCHANGED << exitVars, taskPcs >>
       ELSE ExitWith(TokenMissingStatus, "SystemExit")
    /\ UNCHANGED << envVars, capData, drvData, smpData, schedVars, goldenVars,
                    gradeVars, connVars, simTime, timedOut, done_event, artifacts >>

(* the firmware lookup ending like the token check *)
FirmwareStatusAsToken == TokenMissingStatus

FirmwareMissingStatus == 2

find_firmware ==
    /\ pc = "firmware"
    /\ IF firmwareFound
       THEN pc' = "connect" /\ UNCHANGED << exitVars, taskPcs >>
       ELSE ExitWith(FirmwareMissingStatus, "SystemExit")
    /\ UNCHANGED << envVars, capData, drvData, smpData, schedVars, goldenVars,
                    gradeVars, connVars, simTime, timedOut, done_event, artifacts >>

Connect ==
    /\ pc = "connect"
    /\ simUsed' = TRUE
    /\ \/ /\ connected' = TRUE
          /\ pc' = "upload"
          /\ UNCHANGED << exitVars, taskPcs >>
       \/ /\ Crash
          /\ UNCHANGED connected
    /\ UNCHANGED << envVars, capData, drvData, smpData, schedVars, goldenVars,
                    gradeVars, disconnects, uploads, simStarted, simTime,
                    timedOut, done_event, artifacts >>

(* the uploads of a script that leaves the elf file out *)
UploadsWithoutElf == IF runner = "v1" THEN 3 ELSE 2

(* v1 uploads diagram, elf and bin; v2 and v3 the elf only when it exists *)
UploadsNeeded == IF runner = "v1" \/ elfExists THEN 3 ELSE 2

(* The task created right after the uploads: v1 and v2 create the capture *)
(* task before start_simulation is awaited.                                *)
CaptureCreated == IF runner = "v3" THEN "none" ELSE "ready"

Upload ==
    /\ pc = "upload"
    /\ \/ /\ uploads' = uploads + 1
          /\ IF uploads' = UploadsNeeded
             THEN /\ pc' = "start_sim"
                  /\ capPc' = CaptureCreated
             ELSE UNCHANGED << pc, capPc >>
          /\ UNCHANGED << exitVars, drvPc, smpPc >>
       \/ /\ Crash
          /\ UNCHANGED uploads
    /\ UNCHANGED << envVars, capData, drvData, smpData, schedVars, goldenVars,
                    gradeVars, connected, disconnects, simUsed, simStarted,
                    simTime, timedOut, done_event, artifacts >>

AfterStart == IF runner = "v3" THEN "gather" ELSE "wait_done"

(* start_simulation, then (v2, v3) make_probe_schedule and the creation   *)
(* of the Driver and Sampler tasks, with no await in between              *)
StartSimulation ==
    /\ pc = "start_sim"
    /\ TasksStarted
    /\ \/ /\ simStarted' = TRUE
          /\ pc' = AfterStart
          /\ drvPc' = "ready"
          /\ IF runner = "v1"
             THEN UNCHANGED << smpPc, schedVars >>
             ELSE /\ smpPc' = "ready"
                  /\ \E st \in SeedStates : CallSchedule(st)
                  /\ UNCHANGED rngDraws
          /\ UNCHANGED << exitVars, capPc >>
       \/ /\ Crash
          /\ UNCHANGED << simStarted, schedVars >>
    /\ UNCHANGED << envVars, capData, drvData, smpData, goldenVars, gradeVars,
                    connected, disconnects, simUsed, uploads, simTime,
                    timedOut, done_event, artifacts >>


-----------------------------------------------------------------------------
(* Main coroutine: waiting phase and teardown *)

AfterWait == IF runner = "v1" THEN "download" ELSE "gather"

(* asyncio.wait_for(done_event.wait(), timeout=TIMEOUT_S) returns *)
WaitDone ==
    /\ pc = "wait_done"
    /\ TasksStarted
    /\ done_event
    /\ pc' = AfterWait
    /\ UNCHANGED << envVars, capData, drvData, smpData, schedVars, goldenVars,
                    gradeVars, connVars, simTime, timedOut, done_event,
                    artifacts, exitVars, taskPcs >>

(* ... or raises TimeoutError, which is caught and logged *)
WaitTimeout ==
    /\ pc = "wait_done"
    /\ TasksStarted
    /\ ~done_event
    /\ timedOut' = TRUE
    /\ pc' = AfterWait
    /\ UNCHANGED << envVars, capData, drvData, smpData, schedVars, goldenVars,
                    gradeVars, connVars, simTime, done_event,
                    artifacts, exitVars, taskPcs >>

(* v2: asyncio.gather(drive_task, probe_task, return_exceptions=True)     *)
(* returns once both tasks have finished, whatever their outcome; nothing *)
(* cancels them.                                                          *)
(* a join that waits for the Driver alone *)
GatherV2ReadyDriverOnly == drvPc \in Finished

GatherV2Ready == drvPc \in Finished /\ smpPc \in Finished

GatherV2 ==
    /\ pc = "gather" /\ runner = "v2"
    /\ TasksStarted
    /\ GatherV2Ready
    /\ pc' = "disconnect"
    /\ UNCHANGED << envVars, capData, drvData, smpData, schedVars, goldenVars,
                    gradeVars, connVars, simTime, timedOut, done_event,
                    artifacts, exitVars, taskPcs >>

(* v3: asyncio.gather(drive_pushbutton(...), sample_probes(...)) returns  *)
(* when both are done and raises the first exception of either.           *)
GatherV3 ==
    /\ pc = "gather" /\ runner = "v3"
    /\ TasksStarted
    /\ \/ /\ drvPc = "done" /\ smpPc = "done"
          /\ pc' = "disconnect"
          /\ UNCHANGED << exitVars, taskPcs >>
       \/ /\ drvPc = "failed" \/ smpPc = "failed"
          /\ Crash
    /\ UNCHANGED << envVars, capData, drvData, smpData, schedVars, goldenVars,
                    gradeVars, connVars, simTime, timedOut, done_event, artifacts >>

(* v1: the loop over the three VCD names; every failure is caught *)
V1Download ==
    /\ pc = "download"
    /\ TasksStarted
    /\ pc' = "disconnect"
    /\ UNCHANGED << envVars, capData, drvData, smpData, schedVars, goldenVars,
                    gradeVars, connVars, simTime, timedOut, done_event,
                    artifacts, exitVars, taskPcs >>

(* client.disconnect().  v2 runs it in try/finally: whether it returns or *)
(* raises, serial_task.cancel() follows; v1 and v3 go on only when it     *)
(* returns.                                                               *)
AfterDisconnect == IF runner = "v2" THEN "await_serial" ELSE "grade"

Disconnect ==
    /\ pc = "disconnect"
    /\ TasksStarted
    /\ disconnects' = disconnects + 1
    /\ \/ /\ pc' = AfterDisconnect
          /\ capPc' = IF runner = "v2" THEN Cancel(capPc) ELSE capPc
          /\ UNCHANGED << exitVars, drvPc, smpPc >>
       \/ /\ IF runner = "v2"
             THEN /\ pc' = "await_serial_raised"
                  /\ capPc' = Cancel(capPc)
                  /\ UNCHANGED << exitVars, drvPc, smpPc >>
             ELSE Crash
    /\ UNCHANGED << envVars, capData, drvData, smpData, schedVars, goldenVars,
                    gradeVars, connected, simUsed, uploads, simStarted,
                    simTime, timedOut, done_event, artifacts >>

(* contextlib.suppress(Exception) around `await serial_task`: the         *)
(* CancelledError of a cancelled task derives from BaseException, not     *)
(* Exception, so it is not suppressed and leaves the main coroutine.      *)
AwaitSerial ==
    /\ pc \in { "await_serial", "await_serial_raised" }
    /\ IF capPc = "cancelled" THEN Uncaught("CancelledError")
       ELSE IF pc = "await_serial_raised" THEN Crash
       ELSE pc' = "grade" /\ UNCHANGED << exitVars, taskPcs >>
    /\ UNCHANGED << envVars, capData, drvData, smpData, schedVars, goldenVars,
                    gradeVars, connVars, simTime, timedOut, done_event, artifacts >>

-----------------------------------------------------------------------------
(* Grading *)

(* read_expected_lines / read_lines of an artifact *)
ReadSerialLog == IF "serial" \in artifacts THEN SplitLines(serialFile) ELSE << >>
ReadProbesLog == IF "probes" \in artifacts THEN probesFile ELSE << >>

Header == << "time_s" >> \o PROBES

GoldenProbes == { << >>, << Header >> }

(* expected == actual if expected else True *)
SerialPass(expected, actual) == IF expected # << >> THEN expected = actual ELSE TRUE

(* probes_pass = True; if EXPECTED_PROBES_CSV.exists(): expected == actual *)
ProbesPassV2(present, expected, actual) == IF present THEN expected = actual ELSE TRUE

(* v3: `if not expected` passes, else expected == actual *)
ProbesPassV3(expected, actual) == IF expected = << >> THEN TRUE ELSE expected = actual

(* difflib.SequenceMatcher.find_longest_match on a[alo..ahi], b[blo..bhi]: *)
(* the longest common block, of those the one starting earliest in a, of  *)
(* those the one starting earliest in b; << 0, 0, 0 >> when none          *)
LongestMatch(a, b, alo, ahi, blo, bhi) ==
    LET cands == { c \in (alo..ahi) \X (blo..bhi) \X (1..Len(a)) :
                     /\ c[1] + c[3] - 1 <= ahi
                     /\ c[2] + c[3] - 1 <= bhi
                     /\ \A d \in 0..(c[3] - 1) : a[c[1] + d] = b[c[2] + d] }
        better(c, e) == \/ c[3] > e[3]
                        \/ c[3] = e[3] /\ c[1] < e[1]
                        \/ c[3] = e[3] /\ c[1] = e[1] /\ c[2] <= e[2]
    IN  IF cands = {} THEN << 0, 0, 0 >>
        ELSE CHOOSE c \in cands : \A e \in cands : better(c, e)

(* get_matching_blocks: the pairs << i, j >> of matched positions, found  *)
(* by the longest block first and then to its left and to its right       *)
RECURSIVE MatchedPairs(_, _, _, _, _, _)
MatchedPairs(a, b, alo, ahi, blo, bhi) ==
    LET m == LongestMatch(a, b, alo, ahi, blo, bhi)
    IN  IF m[3] = 0 THEN {}
        ELSE { << m[1] + d, m[2] + d >> : d \in 0..(m[3] - 1) }
             \cup MatchedPairs(a, b, alo, m[1] - 1, blo, m[2] - 1)
             \cup MatchedPairs(a, b, m[1] + m[3], ahi, m[2] + m[3], bhi)

(* the body of the hunk from positions i of a and j of b on: unmatched    *)
(* lines of a with "-", unmatched lines of b with "+", matched lines with *)
(* " " (lists shorter than the context keep every matched line)           *)
RECURSIVE DiffBody(_, _, _, _, _)
DiffBody(a, b, pairs, i, j) ==
    IF i > Len(a) /\ j > Len(b) THEN << >>
    ELSE IF i <= Len(a) /\ ~(\E q \in pairs : q[1] = i)
         THEN << << "-", a[i] >> >> \o DiffBody(a, b, pairs, i + 1, j)
    ELSE IF j <= Len(b) /\ ~(\E q \in pairs : q[2] = j)
         THEN << << "+", b[j] >> >> \o DiffBody(a, b, pairs, i, j + 1)
    ELSE << << " ", a[i] >> >> \o DiffBody(a, b, pairs, i + 1, j + 1)

(* unified_diff_str / diff_str: nothing for equal lists, else the two     *)
(* file header lines, the hunk header and the hunk body                   *)
unified_diff_str(expected, actual) ==
    IF expected = actual THEN << >>
    ELSE << << "---", << >> >>, << "+++", << >> >>, << "@@", << >> >> >>
         \o DiffBody(expected, actual,
                     MatchedPairs(expected, actual, 1, Len(expected), 1, Len(actual)),
                     1, 1)

(* v2 serial: the diff is computed when the golden list is non-empty and  *)
(* printed when it is non-empty                                           *)
SerialDiffOut(expected, actual) ==
    IF expected # << >> /\ unified_diff_str(expected, actual) # << >>
    THEN { [ artifact |-> "serial", lines |-> unified_diff_str(expected, actual) ] }
    ELSE {}

(* v2 and v3 probes: the diff is printed when the comparison failed *)
ProbesDiffOut(pass, expected, actual) ==
    IF ~pass
    THEN { [ artifact |-> "probes", lines |-> unified_diff_str(expected, actual) ] }
    ELSE {}

VerdictAny(sp, pp) == IF sp \/ pp THEN 0 ELSE 1

(* raise SystemExit(0) when every check passed, SystemExit(1) otherwise *)
Verdict(sp, pp) == IF sp /\ pp THEN 0 ELSE 1

(* The golden files are read here; a missing file reads as no lines. *)
GradeV2 ==
    /\ pc = "grade" /\ runner = "v2"
    /\ \E gs \in SUBSET { "serial", "probes" } :
       \E es \in (IF "serial" \in gs THEN GoldenSerials \cup { ReadSerialLog } ELSE { << >> }) :
       \E ep \in (IF "probes" \in gs THEN GoldenProbes \cup { ReadProbesLog } ELSE { << >> }) :
          /\ goldens' = gs /\ expSerial' = es /\ expProbes' = ep
          /\ serial_pass' = SerialPass(es, ReadSerialLog)
          /\ probes_pass' = ProbesPassV2("probes" \in gs, ep, ReadProbesLog)
          /\ diffOut' = SerialDiffOut(es, ReadSerialLog)
                        \cup ProbesDiffOut(probes_pass', ep, ReadProbesLog)
          /\ graded' = TRUE
          /\ ExitWith(Verdict(serial_pass', probes_pass'), "SystemExit")
    /\ UNCHANGED << envVars, capData, drvData, smpData, schedVars, connVars,
                    simTime, timedOut, done_event, artifacts >>

GradeV3 ==
    /\ pc = "grade" /\ runner = "v3"
    /\ \E gs \in SUBSET { "probes" } :
       \E ep \in (IF "probes" \in gs THEN GoldenProbes \cup { ReadProbesLog } ELSE { << >> }) :
          /\ goldens' = gs /\ expProbes' = ep /\ UNCHANGED expSerial
          /\ probes_pass' = ProbesPassV3(ep, ReadProbesLog)
          /\ serial_pass' = TRUE
          /\ diffOut' = ProbesDiffOut(probes_pass', ep, ReadProbesLog)
          /\ graded' = TRUE
          /\ ExitWith(Verdict(serial_pass', probes_pass'), "SystemExit")
    /\ UNCHANGED << envVars, capData, drvData, smpData, schedVars, connVars,
                    simTime, timedOut, done_event, artifacts >>

(* a containment test that lets one line of b match several lines of a *)
RECURSIVE subseqReusing(_, _)
subseqReusing(a, b) ==
    IF a = << >> THEN TRUE
    ELSE IF b = << >> THEN FALSE
    ELSE IF Head(a) = Head(b) THEN subseqReusing(Tail(a), b)
    ELSE subseqReusing(a, Tail(b))

(* subseq(a, b): all(any(x == y for y in it) for x in a), one iterator    *)
(* over b shared by every x                                               *)
RECURSIVE subseq(_, _)
subseq(a, b) ==
    IF a = << >> THEN TRUE
    ELSE IF b = << >> THEN FALSE
    ELSE IF Head(a) = Head(b) THEN subseq(Tail(a), Tail(b))
    ELSE subseq(a, Tail(b))

(* v1: the VCD block always ends in its except clause, ok is computed and *)
(* main returns: the exit status is 0 whatever ok is.                     *)
V1ExitStatus(ok) == 0

GradeV1 ==
    /\ pc = "grade" /\ runner = "v1"
    /\ serial_pass' = subseq(expSerial, captured)
    /\ graded' = TRUE
    /\ ExitWith(V1ExitStatus(serial_pass'), "")
    /\ UNCHANGED << envVars, capData, drvData, smpData, schedVars, goldenVars,
                    probes_pass, diffOut, connVars, simTime, timedOut,
                    done_event, artifacts >>


-----------------------------------------------------------------------------
(* Stream Capture: capture_serial *)

(* v2 opens artifacts/serial.txt for writing, then both ask the line      *)
(* source for its first line.                                             *)
CapStart ==
    /\ Alive /\ capPc = "ready"
    /\ capPc' = "reading"
    /\ IF runner = "v2"
       THEN artifacts' = artifacts \cup { "serial" } /\ serialFile' = << >>
       ELSE UNCHANGED << artifacts, serialFile >>
    /\ UNCHANGED << envVars, delivered, captured, drvData, smpData, schedVars,
                    goldenVars, gradeVars, connVars, simTime, timedOut,
                    done_event, pc, exitVars, drvPc, smpPc >>

(* a capture that tests the line first and leaves the loop on the token   *)
(* without persisting it                                                  *)
CapLineDroppingToken(raw) ==
    /\ Alive /\ capPc = "reading" /\ simStarted
    /\ Len(delivered) < MaxLines
    /\ delivered' = Append(delivered, raw)
    /\ LET line == DecodeLine(raw)
       IN  IF IsDoneLine(line)
           THEN /\ done_event' = TRUE /\ capPc' = "done"
                /\ UNCHANGED << serialFile, captured >>
           ELSE /\ UNCHANGED << done_event, capPc >>
                /\ IF runner = "v2"
                   THEN /\ serialFile' = serialFile \o line \o << "LF" >>
                        /\ UNCHANGED captured
                   ELSE /\ captured' = Append(captured, line)
                        /\ UNCHANGED serialFile
    /\ UNCHANGED << envVars, drvData, smpData, schedVars, goldenVars, gradeVars,
                    connVars, simTime, timedOut, artifacts, pc, exitVars,
                    drvPc, smpPc >>

(* One line arrives: it is decoded, persisted, and tested for the token.  *)
CapLine(raw) ==
    /\ Alive /\ capPc = "reading" /\ simStarted
    /\ Len(delivered) < MaxLines
    /\ delivered' = Append(delivered, raw)
    /\ LET line == DecodeLine(raw)
       IN  /\ IF runner = "v2"
              THEN /\ serialFile' = serialFile \o line \o << "LF" >>
                   /\ UNCHANGED captured
              ELSE /\ captured' = Append(captured, line)
                   /\ UNCHANGED serialFile
           /\ IF IsDoneLine(line)
              THEN done_event' = TRUE /\ capPc' = "done"
              ELSE UNCHANGED << done_event, capPc >>
    /\ UNCHANGED << envVars, drvData, smpData, schedVars, goldenVars, gradeVars,
                    connVars, simTime, timedOut, artifacts, pc, exitVars,
                    drvPc, smpPc >>

(* The line source is exhausted: the async for loop ends. *)
CapSourceEnds ==
    /\ Alive /\ capPc = "reading"
    /\ capPc' = "ended"
    /\ UNCHANGED << envVars, capData, drvData, smpData, schedVars, goldenVars,
                    gradeVars, connVars, simTime, timedOut, done_event,
                    artifacts, pc, exitVars, drvPc, smpPc >>

(* monitor_lines raises: the task ends with that exception. *)
CapSourceRaises ==
    /\ Alive /\ capPc = "reading"
    /\ capPc' = "failed"
    /\ UNCHANGED << envVars, capData, drvData, smpData, schedVars, goldenVars,
                    gradeVars, connVars, simTime, timedOut, done_event,
                    artifacts, pc, exitVars, drvPc, smpPc >>

-----------------------------------------------------------------------------
(* Stimulus Driver: drive_pushbutton (v2, v3), drive_button (v1) *)

DrvWaits == { "pre", "post", "hold", "post2" }

(* The simulated time the Driver is waiting for *)
DrvTarget ==
    LET e == BUTTON_PRESSES[drvI]
    IN  CASE drvPc = "pre"  -> IF runner = "v1" THEN e.press - GuardBand
                               ELSE Max(0, e.press - GuardBand)
          [] drvPc = "post" -> e.press + GuardBand
          [] OTHER          -> e.release + GuardBand

DrvStart ==
    /\ Alive /\ drvPc = "ready"
    /\ IF BUTTON_PRESSES = << >>
       THEN drvPc' = "done" /\ UNCHANGED drvI
       ELSE drvPc' = "pre" /\ drvI' = 1
    /\ UNCHANGED << envVars, capData, smpData, schedVars, goldenVars, gradeVars,
                    connVars, simTime, timedOut, done_event, artifacts,
                    pc, exitVars, capPc, smpPc, drvWaitFailed, ctrlCalls,
                    ctrlInFlight, ctrlFailed >>

(* the position after the last step of event drvI *)
DrvNextEvent ==
    IF drvI < Len(BUTTON_PRESSES)
    THEN drvPc' = "pre" /\ drvI' = drvI + 1
    ELSE drvPc' = "done" /\ UNCHANGED drvI

(* set_control is called: value 1 to press, value 0 to release *)
DrvCalls(calls, i, v) == Append(calls, << i, v >>)

(* the call goes out and the Driver awaits its reply *)
DrvIssue(v) ==
    /\ ctrlCalls' = DrvCalls(ctrlCalls, drvI, v)
    /\ ctrlInFlight' = ctrlInFlight + 1

(* What follows a wait, up to the next await: after the pre-roll and the  *)
(* hold the set_control call is issued with no await in between.          *)
DrvAfterWait ==
    CASE drvPc = "pre"  -> drvPc' = "pressRet" /\ DrvIssue(1) /\ UNCHANGED drvI
      [] drvPc = "post" -> /\ drvPc' = "hold"
                           /\ UNCHANGED << drvI, ctrlCalls, ctrlInFlight >>
      [] drvPc = "hold" -> drvPc' = "releaseRet" /\ DrvIssue(0) /\ UNCHANGED drvI
      [] OTHER          -> DrvNextEvent /\ UNCHANGED << ctrlCalls, ctrlInFlight >>

(* wait_until_simulation_time returns *)
DrvWaitOk ==
    /\ Alive /\ drvPc \in DrvWaits
    /\ simTime >= DrvTarget
    /\ DrvAfterWait
    /\ UNCHANGED << envVars, capData, smpData, schedVars, goldenVars, gradeVars,
                    connVars, simTime, timedOut, done_event, artifacts,
                    pc, exitVars, capPc, smpPc, drvWaitFailed, ctrlFailed >>

(* wait_until_simulation_time raises: v1 has its two post-roll waits      *)
(* inside the try blocks, every other wait ends the task.                 *)
DrvWaitCaught == runner = "v1" /\ drvPc \in { "post", "post2" }

DrvWaitRaises ==
    /\ Alive /\ drvPc \in DrvWaits
    /\ drvWaitFailed' = TRUE
    /\ IF DrvWaitCaught
       THEN DrvAfterWait
       ELSE drvPc' = "failed" /\ UNCHANGED << drvI, ctrlCalls, ctrlInFlight >>
    /\ UNCHANGED << envVars, capData, smpData, schedVars, goldenVars, gradeVars,
                    connVars, simTime, timedOut, done_event, artifacts,
                    pc, exitVars, capPc, smpPc, ctrlFailed >>

(* a set_control that raises ends the task *)
DrvReturnAborting(ok) ==
    /\ Alive /\ drvPc \in { "pressRet", "releaseRet" }
    /\ ctrlInFlight' = ctrlInFlight - 1
    /\ ctrlFailed' = (ctrlFailed \/ ~ok)
    /\ IF ~ok THEN drvPc' = "failed" /\ UNCHANGED drvI
       ELSE IF drvPc = "pressRet" THEN drvPc' = "post" /\ UNCHANGED drvI
       ELSE IF runner = "v1" THEN drvPc' = "post2" /\ UNCHANGED drvI
       ELSE DrvNextEvent
    /\ UNCHANGED << envVars, capData, smpData, schedVars, goldenVars, gradeVars,
                    connVars, simTime, timedOut, done_event, artifacts,
                    pc, exitVars, capPc, smpPc, drvWaitFailed, ctrlCalls >>

(* set_control returns (ok) or raises (logged); v1 skips the post-roll    *)
(* wait of a call that raised.                                            *)
DrvReturn(ok) ==
    /\ Alive /\ drvPc \in { "pressRet", "releaseRet" }
    /\ ctrlInFlight' = ctrlInFlight - 1
    /\ ctrlFailed' = (ctrlFailed \/ ~ok)
    /\ IF drvPc = "pressRet"
       THEN /\ drvPc' = IF runner = "v1" /\ ~ok THEN "hold" ELSE "post"
            /\ UNCHANGED drvI
       ELSE IF runner = "v1" /\ ok
            THEN drvPc' = "post2" /\ UNCHANGED drvI
            ELSE DrvNextEvent
    /\ UNCHANGED << envVars, capData, smpData, schedVars, goldenVars, gradeVars,
                    connVars, simTime, timedOut, done_event, artifacts,
                    pc, exitVars, capPc, smpPc, drvWaitFailed, ctrlCalls >>


-----------------------------------------------------------------------------
(* Probe Sampler: sample_probes *)

(* The file is opened for writing and the header row written. *)
SmpStart ==
    /\ Alive /\ smpPc = "ready"
    /\ artifacts' = artifacts \cup { "probes" }
    /\ probesFile' = << Header >>
    /\ smpK' = 1
    /\ smpPc' = IF probe_times = << >> THEN "done" ELSE "wait"
    /\ UNCHANGED << envVars, capData, drvData, schedVars, goldenVars, gradeVars,
                    connVars, simTime, timedOut, done_event, pc, exitVars,
                    capPc, drvPc, row, reads >>

(* writer.writerow(row), then the next timestamp or the end of the loop *)
SmpWriteRow(r) ==
    /\ probesFile' = Append(probesFile, r)
    /\ row' = << >>
    /\ smpK' = smpK + 1
    /\ smpPc' = IF smpK < Len(probe_times) THEN "wait" ELSE "done"

(* wait_until_simulation_time(t) returns: row = [f"{t:.6f}"] *)
SmpWaitOk ==
    /\ Alive /\ smpPc = "wait"
    /\ simTime >= probe_times[smpK]
    /\ LET r == << Fmt6(probe_times[smpK]) >>
       IN  IF PROBES = << >>
           THEN SmpWriteRow(r)
           ELSE row' = r /\ smpPc' = "read" /\ UNCHANGED << smpK, probesFile >>
    /\ UNCHANGED << envVars, capData, drvData, schedVars, goldenVars, gradeVars,
                    connVars, simTime, timedOut, done_event, artifacts,
                    pc, exitVars, capPc, drvPc, reads >>

(* wait_until_simulation_time(t) raises: the task ends, the file is closed *)
SmpWaitRaises ==
    /\ Alive /\ smpPc = "wait"
    /\ smpPc' = "failed"
    /\ UNCHANGED << envVars, capData, drvData, smpData, schedVars, goldenVars,
                    gradeVars, connVars, simTime, timedOut, done_event,
                    artifacts, pc, exitVars, capPc, drvPc >>

(* a failed read recorded as a low level *)
CellZero(out) == IF out = FAIL THEN "0" ELSE out

(* the cell a read_pin outcome puts in the row: val, or "ERR" when the    *)
(* call raised                                                            *)
Cell(out) == IF out = FAIL THEN ERR ELSE out

(* the row written as soon as one read has failed *)
RowCompleteEarly(r) == Len(r) = 1 + Len(PROBES) \/ r[Len(r)] = ERR

(* the loop over the probes has appended a cell for every probe *)
RowComplete(r) == Len(r) = 1 + Len(PROBES)

(* a sampler that writes every cell to the file as soon as it is read *)
SmpReadUnbuffered(out) ==
    /\ Alive /\ smpPc = "read"
    /\ reads' = Append(reads, << smpK, Len(row), out >>)
    /\ LET r == Append(row, Cell(out))
       IN  /\ probesFile' = IF Len(row) = 1 THEN Append(probesFile, r)
                            ELSE [ probesFile EXCEPT ![Len(probesFile)] = r ]
           /\ IF RowComplete(r)
              THEN /\ row' = << >>
                   /\ smpK' = smpK + 1
                   /\ smpPc' = IF smpK < Len(probe_times) THEN "wait" ELSE "done"
              ELSE row' = r /\ UNCHANGED << smpK, smpPc >>
    /\ UNCHANGED << envVars, capData, drvData, schedVars, goldenVars, gradeVars,
                    connVars, simTime, timedOut, done_event, artifacts,
                    pc, exitVars, capPc, drvPc >>

(* read_pin of the next probe returns a value or raises; after the last   *)
(* probe the row is written with no await in between.                     *)
SmpRead(out) ==
    /\ Alive /\ smpPc = "read"
    /\ reads' = Append(reads, << smpK, Len(row), out >>)
    /\ LET r == Append(row, Cell(out))
       IN  IF RowComplete(r)
           THEN SmpWriteRow(r)
           ELSE row' = r /\ UNCHANGED << smpK, probesFile, smpPc >>
    /\ UNCHANGED << envVars, capData, drvData, schedVars, goldenVars, gradeVars,
                    connVars, simTime, timedOut, done_event, artifacts,
                    pc, exitVars, capPc, drvPc >>

-----------------------------------------------------------------------------
(* The simulated clock *)

(* the simulated times some task is waiting for *)
PendingTargets ==
    (IF drvPc \in DrvWaits THEN { DrvTarget } ELSE {})
    \cup (IF smpPc = "wait" THEN { probe_times[smpK] } ELSE {})

(* The simulation runs on to a time a task waits for. *)
Tick ==
    /\ Alive /\ simStarted
    /\ \E t \in PendingTargets : t > simTime /\ simTime' = t
    /\ UNCHANGED << envVars, capData, drvData, smpData, schedVars, goldenVars,
                    gradeVars, connVars, timedOut, done_event, artifacts,
                    pc, exitVars, taskPcs >>

-----------------------------------------------------------------------------
(* A whole run of one of the three scripts *)

MainStep ==
    \/ V1Import \/ CheckToken \/ find_firmware \/ Connect \/ Upload
    \/ StartSimulation \/ WaitDone \/ WaitTimeout \/ GatherV2 \/ GatherV3
    \/ V1Download \/ Disconnect \/ AwaitSerial \/ GradeV2 \/ GradeV3 \/ GradeV1

CaptureStep ==
    \/ CapStart \/ (\E raw \in RawLines : CapLine(raw))
    \/ CapSourceEnds \/ CapSourceRaises

DriverStep ==
    \/ DrvStart \/ DrvWaitOk \/ DrvWaitRaises
    \/ (\E ok \in BOOLEAN : DrvReturn(ok))

SamplerStep ==
    \/ SmpStart \/ SmpWaitOk \/ SmpWaitRaises
    \/ (\E out \in PinValues \cup { FAIL } : SmpRead(out))

Next == MainStep \/ CaptureStep \/ DriverStep \/ SamplerStep \/ Tick

Spec == Init /\ [][Next]_vars

(* The steps the event loop takes by itself: a coroutine that is ready to *)
(* run is run.  The simulated clock, the arrival of serial lines and the  *)
(* failure of a simulator call are left to the simulator.                 *)
DriverRuns ==
    DrvStart \/ DrvWaitOk \/ (\E ok \in BOOLEAN : DrvReturn(ok))

SamplerRuns ==
    SmpStart \/ SmpWaitOk \/ (\E out \in PinValues \cup { FAIL } : SmpRead(out))

SpecLive ==
    /\ Spec
    /\ WF_vars(MainStep) /\ WF_vars(CapStart)
    /\ WF_vars(DriverRuns) /\ WF_vars(SamplerRuns)


-----------------------------------------------------------------------------
(* The Schedule Builder alone, over drawn inputs *)

TimeChoices == 0..3
WindowChoices == { << 0, 2 >>, << 1, 3 >>, << 0, 4 >> }

FixedChoices ==
    { << >> } \cup { << a >> : a \in TimeChoices }
              \cup { << a, b >> : a \in TimeChoices, b \in TimeChoices }

InitSched ==
    /\ Idle
    /\ runner \in { "v2", "v3" }
    /\ tokenSet = TRUE /\ firmwareFound = TRUE /\ elfExists = FALSE
    /\ pc = "sched"
    /\ BUTTON_PRESSES = << >> /\ PROBES = << >>
    /\ IMPORTANT_TIMES \in FixedChoices
    /\ NUM_RANDOM_TIMES \in 0..MaxRandom
    /\ RAND_WINDOW \in WindowChoices
    /\ RANDOM_SEED \in { NoSeed } \cup 0..(RngModulus - 1)
    /\ rngState \in 0..(RngModulus - 1)

(* one call of make_probe_schedule() *)
MakeSchedule ==
    /\ pc \in { "sched", "sched_done" }
    /\ Len(schedCalls) < MaxCalls
    /\ pc' = "sched_done"
    /\ \E st \in SeedStates : CallSchedule(st)
    /\ UNCHANGED << rngDraws, envVars, capData, drvData, smpData, goldenVars, gradeVars,
                    connVars, simTime, timedOut, done_event, artifacts,
                    exitVars, taskPcs >>

(* some other code of the process draws from the module-level generator *)
RngUse ==
    /\ pc \in { "sched", "sched_done" }
    /\ Len(schedCalls) < MaxCalls
    /\ rngDraws < MaxDraws
    /\ rngState' = RngNext(rngState)
    /\ rngDraws' = rngDraws + 1
    /\ UNCHANGED << envVars, capData, drvData, smpData, goldenVars, gradeVars,
                    connVars, simTime, timedOut, done_event, artifacts,
                    exitVars, taskPcs, pc, probe_times, rand_times, schedCalls >>

NextSched == MakeSchedule \/ RngUse

SpecSched == InitSched /\ [][NextSched]_vars

-----------------------------------------------------------------------------
(* The Probe Sampler alone, over drawn probe lists and schedules *)

ProbeLists == { SubSeq(DefaultProbes, 1, n) : n \in 0..MaxProbes }

(* strictly increasing schedules of at most MaxRows of the times 1..MaxRows+1 *)
Schedules ==
    { SetToSortedSeq(S) : S \in { T \in SUBSET (1..(MaxRows + 1)) :
                                    Cardinality(T) <= MaxRows } }

InitSampler ==
    /\ Idle
    /\ runner \in { "v2", "v3" }
    /\ tokenSet = TRUE /\ firmwareFound = TRUE /\ elfExists = FALSE
    /\ pc = "gather"
    /\ BUTTON_PRESSES = << >>
    /\ PROBES \in ProbeLists
    /\ IMPORTANT_TIMES = << >> /\ NUM_RANDOM_TIMES = 0
    /\ RAND_WINDOW = DefaultWindow /\ RANDOM_SEED = NoSeed /\ rngState = 0

(* the coordinator hands the Sampler its schedule after start_simulation *)
SamplerLaunch ==
    /\ pc = "gather" /\ smpPc = "none"
    /\ \E sch \in Schedules : probe_times' = sch
    /\ smpPc' = "ready"
    /\ simStarted' = TRUE /\ connected' = TRUE /\ simUsed' = TRUE
    /\ UNCHANGED << envVars, capData, drvData, smpData, goldenVars, gradeVars,
                    disconnects, uploads, simTime, timedOut, done_event,
                    artifacts, pc, exitVars, capPc, drvPc, rngState, rand_times,
                    rngDraws, schedCalls >>

(* the main coroutine is left by an exception while the Sampler runs:    *)
(* asyncio.run cancels the task at the await it is suspended in           *)
SamplerTornDown ==
    /\ pc = "gather" /\ smpPc \in Running \ { "ready" }
    /\ Crash
    /\ UNCHANGED << envVars, capData, drvData, smpData, schedVars, goldenVars,
                    gradeVars, connVars, simTime, timedOut, done_event, artifacts >>

NextSampler == SamplerLaunch \/ SamplerStep \/ Tick \/ SamplerTornDown

SpecSampler == InitSampler /\ [][NextSampler]_vars

-----------------------------------------------------------------------------
(* The Stimulus Driver alone, over drawn event lists *)

(* the i-th drawn event; the first lies within the guard band of time 0 *)
DrawnEvent(i) == Event(20000 * i - 19000, 20000 * i - 10000)

EventLists ==
    { [ i \in 1..n |-> DrawnEvent(i + off) ] : n \in 0..MaxEvents, off \in 0..1 }

InitDriver ==
    /\ Idle
    /\ runner \in { "v1", "v2", "v3" }
    /\ tokenSet = TRUE /\ firmwareFound = TRUE /\ elfExists = FALSE
    /\ pc = "gather"
    /\ BUTTON_PRESSES \in (IF runner = "v1" THEN { V1Presses } ELSE EventLists)
    /\ PROBES = << >>
    /\ IMPORTANT_TIMES = << >> /\ NUM_RANDOM_TIMES = 0
    /\ RAND_WINDOW = DefaultWindow /\ RANDOM_SEED = NoSeed /\ rngState = 0

(* the coordinator creates the Driver task after start_simulation *)
DriverLaunch ==
    /\ pc = "gather" /\ drvPc = "none"
    /\ drvPc' = "ready"
    /\ simStarted' = TRUE /\ connected' = TRUE /\ simUsed' = TRUE
    /\ UNCHANGED << envVars, capData, drvData, smpData, schedVars, goldenVars,
                    gradeVars, disconnects, uploads, simTime, timedOut,
                    done_event, artifacts, pc, exitVars, capPc, smpPc >>

NextDriver == DriverLaunch \/ DriverStep \/ Tick

SpecDriver == InitDriver /\ [][NextDriver]_vars


-----------------------------------------------------------------------------
(* The Stimulus Driver and the Probe Sampler side by side, as created by  *)
(* autogradev2.py and autogradev3.py after start_simulation, over drawn   *)
(* event lists, probe lists and schedules                                 *)

InitTasks ==
    /\ Idle
    /\ runner \in { "v2", "v3" }
    /\ tokenSet = TRUE /\ firmwareFound = TRUE /\ elfExists = FALSE
    /\ pc = "gather"
    /\ BUTTON_PRESSES \in EventLists
    /\ PROBES \in ProbeLists
    /\ IMPORTANT_TIMES = << >> /\ NUM_RANDOM_TIMES = 0
    /\ RAND_WINDOW = DefaultWindow /\ RANDOM_SEED = NoSeed /\ rngState = 0

(* drive_task and probe_task are created one after the other *)
TasksLaunch ==
    /\ pc = "gather" /\ drvPc = "none" /\ smpPc = "none"
    /\ \E sch \in Schedules : probe_times' = sch
    /\ drvPc' = "ready" /\ smpPc' = "ready"
    /\ simStarted' = TRUE /\ connected' = TRUE /\ simUsed' = TRUE
    /\ UNCHANGED << envVars, capData, drvData, smpData, goldenVars, gradeVars,
                    disconnects, uploads, simTime, timedOut, done_event,
                    artifacts, pc, exitVars, capPc, rngState, rand_times,
                    rngDraws, schedCalls >>

NextTasks == TasksLaunch \/ DriverStep \/ SamplerStep \/ Tick

SpecTasks == InitTasks /\ [][NextTasks]_vars

-----------------------------------------------------------------------------
(* The ordered-subsequence comparison of autograde.py alone, over drawn   *)
(* golden and captured line lists                                         *)

SubseqLines == { << "A" >>, << "B" >>, << "X" >> }

RECURSIVE SeqsUpTo(_, _)
SeqsUpTo(S, n) ==
    IF n = 0 THEN { << >> }
    ELSE LET shorter == SeqsUpTo(S, n - 1)
         IN  shorter \cup { Append(q, x) : q \in shorter, x \in S }

InitSubseq ==
    /\ IdleTasks
    /\ runner = "v1"
    /\ tokenSet = TRUE /\ firmwareFound = TRUE /\ elfExists = FALSE
    /\ pc = "grade"
    /\ BUTTON_PRESSES = V1Presses /\ PROBES = << >>
    /\ IMPORTANT_TIMES = << >> /\ NUM_RANDOM_TIMES = 0
    /\ RAND_WINDOW = DefaultWindow /\ RANDOM_SEED = NoSeed /\ rngState = 0
    /\ artifacts = {} /\ serialFile = << >> /\ probesFile = << >>
    /\ goldens = { "serial" } /\ expProbes = << >>
    /\ expSerial \in SeqsUpTo(SubseqLines, MaxExpected)
    /\ captured \in SeqsUpTo(SubseqLines, MaxActual)

NextSubseq == GradeV1

SpecSubseq == InitSubseq /\ [][NextSubseq]_vars

-----------------------------------------------------------------------------
(* Properties of a whole run *)

(* the script got as far as its main coroutine (v1 reads its golden file  *)
(* while the module is imported, before main is entered)                  *)
MainEntered == runner # "v1" \/ "serial" \in goldens

(* the outcome of each artifact check, from the files as they are *)
SerialCheckPasses ==
    \/ "serial" \notin goldens
    \/ expSerial = << >>
    \/ expSerial = ReadSerialLog

ProbesCheckPasses ==
    \/ "probes" \notin goldens
    \/ runner = "v3" /\ expProbes = << >>
    \/ expProbes = ReadProbesLog

GradingOutcome == IF SerialCheckPasses /\ ProbesCheckPasses THEN 0 ELSE 1

(* C1: in v2, a run in which the timeout elapses and no sentinel line     *)
(* ever arrives (disconnect itself not failing) ends graded, with the     *)
(* grading outcome as its exit status, also when Stream Capture was still *)
(* waiting for a line and was cancelled at teardown.                      *)
C1_TimeoutRunIsGraded ==
    (runner = "v2" /\ pc = "exited" /\ timedOut /\ ~done_event
        /\ raised # "Exception")
    => (graded /\ exitCode = GradingOutcome)

(* C2: a v2 or v3 run that reaches grading has ended with status 0 or 1,  *)
(* 0 exactly when every artifact check passed and 1 exactly when some     *)
(* check failed.                                                          *)
C2_ExitReflectsVerdict ==
    (graded /\ runner \in { "v2", "v3" })
    => /\ pc = "exited"
       /\ exitCode \in { 0, 1 }
       /\ (exitCode = 0) <=> (SerialCheckPasses /\ ProbesCheckPasses)
       /\ (exitCode = 1) <=> (~SerialCheckPasses \/ ~ProbesCheckPasses)

(* a v2 run graded FAIL because of the probes check alone *)
C2_Witness ==
    /\ graded /\ runner = "v2" /\ exitCode = 1
    /\ goldens = { "serial", "probes" }
    /\ expSerial # << >> /\ SerialCheckPasses /\ ~ProbesCheckPasses

(* C3: once connect() has succeeded, a process that has ended has called  *)
(* disconnect() exactly once, whatever ended it.                          *)
C3_ReleasedExactlyOnce ==
    (pc = "exited" /\ connected) => disconnects = 1

(* C4: with the token present and no firmware, the run never gets past    *)
(* the firmware lookup: it issues no simulator call, starts no activity,  *)
(* creates no artifact, and when it has ended its status is 2; and no run *)
(* ends with status 2 in any other situation.                             *)
C4_MissingFirmwareExits2 ==
    /\ (MainEntered /\ tokenSet /\ ~firmwareFound)
       => /\ pc \in { "token", "firmware", "exited" }
          /\ ~simUsed /\ ~connected /\ artifacts = {}
          /\ capPc = "none" /\ drvPc = "none" /\ smpPc = "none"
          /\ pc = "exited" => exitCode = 2
    /\ exitCode = 2 => (tokenSet /\ ~firmwareFound /\ pc = "exited")

(* a run ended by the missing firmware *)
C4_Witness ==
    /\ pc = "exited" /\ tokenSet /\ ~firmwareFound /\ MainEntered
    /\ exitCode = 2 /\ raised = "SystemExit"

(* C5: with the token absent, the run ends before any simulator call and  *)
(* its exit status is neither 0 nor 1.                                    *)
C5_MissingTokenDistinctStatus ==
    (MainEntered /\ ~tokenSet /\ pc = "exited")
    => (~simUsed /\ ~connected /\ exitCode \notin { 0, 1 })


-----------------------------------------------------------------------------
(* Properties of the Probe Sampler (SpecSampler) *)

NumProbes == Len(PROBES)

(* C6: a Sampler that ran to completion has written the header and then   *)
(* exactly one row per schedule entry, row k starting with the rendering  *)
(* of schedule[k] and holding one cell per probe, the probes read in list *)
(* order for each row, whichever reads failed.                            *)
C6_OneRowPerTimestamp ==
    smpPc = "done"
    => /\ Len(probesFile) = 1 + Len(probe_times)
       /\ probesFile[1] = << "time_s" >> \o PROBES
       /\ \A k \in 1..Len(probe_times) :
             /\ Len(probesFile[k + 1]) = 1 + NumProbes
             /\ probesFile[k + 1][1] = Fmt6(probe_times[k])
       /\ Len(reads) = Len(probe_times) * NumProbes
       /\ \A j \in 1..Len(reads) :
             /\ reads[j][1] = ((j - 1) \div NumProbes) + 1
             /\ reads[j][2] = ((j - 1) % NumProbes) + 1

(* a completed two-row, two-probe log with a failed read in it *)
C6_Witness ==
    /\ smpPc = "done" /\ NumProbes = 2 /\ Len(probe_times) = 2
    /\ Len(probesFile) = 3
    /\ \E j \in 1..Len(reads) : reads[j][3] = FAIL

(* the row that holds the cell of read <<k, p, out>>: written, or still   *)
(* being built                                                            *)
RowOf(k) == IF k < Len(probesFile) THEN probesFile[k + 1] ELSE row

(* C7: the cell of probe p at timestamp k holds "ERR" exactly when that   *)
(* read failed and the value the read returned otherwise; every row is    *)
(* written complete, and a completed Sampler has read every probe at      *)
(* every timestamp, whichever reads failed.                               *)
C7_ErrorMarksOneCell ==
    /\ \A j \in 1..Len(reads) :
          LET r == RowOf(reads[j][1])
              p == reads[j][2]
              out == reads[j][3]
          IN  /\ Len(r) >= p + 1
              /\ (r[p + 1] = ERR) <=> (out = FAIL)
              /\ out # FAIL => r[p + 1] = out
    /\ \A k \in 2..Len(probesFile) : Len(probesFile[k]) = 1 + NumProbes
    /\ smpPc = "done" => Len(reads) = Len(probe_times) * NumProbes

(* the first read fails, its row still holds the second probe's value and *)
(* the next timestamp is sampled                                          *)
C7_Witness ==
    /\ smpPc = "done" /\ NumProbes = 2 /\ Len(probe_times) = 2
    /\ reads[1] = << 1, 1, FAIL >> /\ reads[2] = << 1, 2, "1" >>
    /\ probesFile[2] = << Fmt6(probe_times[1]), ERR, "1" >>
    /\ probesFile[3] = << Fmt6(probe_times[2]), "0", "1" >>

-----------------------------------------------------------------------------
(* Properties of the Stimulus Driver (SpecDriver) *)

(* C8: the set_control calls issued so far are, in order, press (1) then  *)
(* release (0) of event 1, of event 2, ...; at most one call is in flight; *)
(* a Driver none of whose waits raised does not end before it has issued  *)
(* both calls of every event, whichever set_control calls raised.         *)
C8_TwoCallsPerEventInOrder ==
    /\ ctrlInFlight \in { 0, 1 }
    /\ Len(ctrlCalls) <= 2 * Len(BUTTON_PRESSES)
    /\ \A j \in 1..Len(ctrlCalls) : ctrlCalls[j] = << (j + 1) \div 2, j % 2 >>
    /\ (drvPc \in { "done", "failed" } /\ ~drvWaitFailed)
       => /\ drvPc = "done"
          /\ Len(ctrlCalls) = 2 * Len(BUTTON_PRESSES)
          /\ ctrlInFlight = 0

(* two events driven to the end although a set_control call raised *)
C8_Witness ==
    /\ drvPc = "done" /\ ctrlFailed /\ ~drvWaitFailed
    /\ Len(BUTTON_PRESSES) = 2
    /\ ctrlCalls = << << 1, 1 >>, << 1, 0 >>, << 2, 1 >>, << 2, 0 >> >>

-----------------------------------------------------------------------------
(* Properties of Stream Capture (Spec) *)

(* the raw line, without its line end, trimmed and uppercased, is DONE *)
IsSentinelRaw(raw) ==
    Upper(Strip(RStrip(raw, { "CR", "LF" }))) = << "D", "O", "N", "E" >>

(* C9: the event is set exactly when Stream Capture has finished on a     *)
(* sentinel line: the last line delivered is then the sentinel and the    *)
(* first such line; a capture task that was cancelled, failed, or whose   *)
(* source ended leaves the event unset.                                   *)
C9_DoneOnlyOnSentinel ==
    /\ done_event <=> capPc = "done"
    /\ done_event <=> (\E i \in 1..Len(delivered) : IsSentinelRaw(delivered[i]))
    /\ done_event
       => /\ delivered # << >>
          /\ IsSentinelRaw(delivered[Len(delivered)])
          /\ \A i \in 1..(Len(delivered) - 1) : ~IsSentinelRaw(delivered[i])
    /\ capPc \in { "cancelled", "ended", "failed" } => ~done_event

(* the event set by a lower-case, padded sentinel after a near miss *)
C9_Witness ==
    /\ done_event
    /\ delivered = << << "D", "O", "N", "E", "!", "LF" >>,
                      << "SP", "d", "o", "n", "e", "CR", "LF" >> >>

-----------------------------------------------------------------------------
(* Properties of the Schedule Builder (SpecSched) *)

(* C10: the schedule is strictly increasing, contains every fixed time,   *)
(* and holds exactly the fixed times and the random draws, each value     *)
(* once.                                                                  *)
C10_ScheduleIsSortedUnion ==
    pc = "sched_done"
    => /\ \A i \in 1..(Len(probe_times) - 1) : probe_times[i] < probe_times[i + 1]
       /\ Range(IMPORTANT_TIMES) \subseteq Range(probe_times)
       /\ Range(probe_times) = Range(IMPORTANT_TIMES) \cup Range(rand_times)
       /\ Len(probe_times) = Cardinality(Range(IMPORTANT_TIMES) \cup Range(rand_times))
       /\ Len(rand_times) = NUM_RANDOM_TIMES

(* a random draw equal to a fixed time, collapsed into one entry *)
C10_Witness ==
    /\ pc = "sched_done"
    /\ Len(IMPORTANT_TIMES) = 2 /\ NUM_RANDOM_TIMES = 2
    /\ Range(IMPORTANT_TIMES) \cap Range(rand_times) # {}
    /\ Len(probe_times) < 4

(* C11: with a seed set, every call of make_probe_schedule in a process   *)
(* returns the same schedule, whatever state earlier draws left the       *)
(* generator in, and each call seeds the generator exactly once.          *)
C11_SeededScheduleDeterministic ==
    RANDOM_SEED # NoSeed
    => \A i \in 1..Len(schedCalls) :
          /\ schedCalls[i].seeded = 1
          /\ schedCalls[i].times = schedCalls[1].times

(* two seeded calls, the generator used before and between them *)
C11_Witness ==
    /\ RANDOM_SEED # NoSeed /\ Len(schedCalls) = 2
    /\ NUM_RANDOM_TIMES = 2
    /\ 0 < schedCalls[1].drawn /\ schedCalls[1].drawn < schedCalls[2].drawn
    /\ schedCalls[1].times = schedCalls[2].times
    /\ Range(rand_times) \ Range(IMPORTANT_TIMES) # {}

-----------------------------------------------------------------------------
(* Properties of the ordered-subsequence comparison (SpecSubseq) *)

(* the lines of a appear in b in order, each at a position of its own,    *)
(* every position later than the one before                               *)
Embeds(a, b) ==
    \E f \in [ 1..Len(a) -> 1..Len(b) ] :
        /\ \A i \in 1..Len(a) : b[f[i]] = a[i]
        /\ \A i \in 1..(Len(a) - 1) : f[i] < f[i + 1]

(* C12: subseq(expected, actual) is true exactly when the expected lines  *)
(* appear in the actual lines, in order, at strictly increasing           *)
(* positions, not necessarily contiguous.                                 *)
C12_SubseqIsOrderedContainment ==
    (runner = "v1" /\ graded) => (serial_pass <=> Embeds(expSerial, captured))

(* [A, B] found, with gaps, in [X, A, X, B, X] *)
C12_Witness ==
    /\ runner = "v1" /\ graded /\ serial_pass
    /\ expSerial = << << "A" >>, << "B" >> >>
    /\ captured = << << "X" >>, << "A" >>, << "X" >>, << "B" >>, << "X" >> >>

-----------------------------------------------------------------------------
(* Properties of the exact comparison (Spec) *)

(* the positions at which two line lists differ *)
DiffersAt(e, a) ==
    { i \in 1..Max(Len(e), Len(a)) : i > Len(e) \/ i > Len(a) \/ e[i] # a[i] }

(* a diff of the artifact was printed that is not empty and shows a line  *)
(* at which the two lists differ                                          *)
DiffShown(art, e, a) ==
    \E d \in diffOut :
        /\ d.artifact = art /\ d.lines # << >>
        /\ \E i \in DiffersAt(e, a) :
              \/ i <= Len(e) /\ << "-", e[i] >> \in Range(d.lines)
              \/ i <= Len(a) /\ << "+", a[i] >> \in Range(d.lines)

(* the comparison of one artifact whose golden file is present *)
ExactCheck(art, pass, e, a) ==
    /\ pass <=> (Len(e) = Len(a) /\ \A i \in 1..Len(e) : e[i] = a[i])
    /\ DiffersAt(e, a) # {} => (~pass /\ exitCode = 1 /\ DiffShown(art, e, a))

(* C13: in a graded v2 or v3 run, an artifact whose golden file is        *)
(* present passes exactly when the captured lines equal the golden lines  *)
(* in number and content; when they differ the artifact fails, the exit   *)
(* status is 1 and a non-empty diff showing a differing line is printed.  *)
C13_ExactModeComparesEveryLine ==
    (graded /\ runner \in { "v2", "v3" })
    => /\ (runner = "v2" /\ "serial" \in goldens)
          => ExactCheck("serial", serial_pass, expSerial, ReadSerialLog)
       /\ "probes" \in goldens
          => ExactCheck("probes", probes_pass, expProbes, ReadProbesLog)

-----------------------------------------------------------------------------
(* Properties of the grading with absent golden files (Spec) *)

(* the exact comparisons of the artifacts whose golden file is present *)
PresentChecksPass ==
    /\ "serial" \in goldens => serial_pass
    /\ "probes" \in goldens => probes_pass

(* the part of C14 on the two exact-mode runners: an artifact whose       *)
(* golden file is absent passes, and the exit status is 0 exactly when    *)
(* the artifacts with a golden file pass                                  *)
AbsentGoldenPasses ==
    (graded /\ runner \in { "v2", "v3" })
    => /\ "serial" \notin goldens => serial_pass
       /\ "probes" \notin goldens => probes_pass
       /\ exitCode = (IF PresentChecksPass THEN 0 ELSE 1)
       /\ goldens = {} => exitCode = 0

(* C14: an absent golden file makes its artifact pass whatever was        *)
(* captured, the exit status being decided by the artifacts that have a   *)
(* golden file (0 when none has), and no run is failed by the absence of  *)
(* a golden file.                                                         *)
C14_AbsentGoldenNeverFails ==
    /\ AbsentGoldenPasses
    /\ ~(pc = "exited" /\ "serial" \notin goldens
           /\ raised = "FileNotFoundError")

-----------------------------------------------------------------------------
(* Properties of the start of the activities (Spec) *)

(* diagram.json, the firmware image and, where it is uploaded, the elf    *)
(* file have all been uploaded                                            *)
AllUploaded ==
    /\ uploads >= 2
    /\ (runner = "v1" \/ elfExists) => uploads = 3

ActivityStep == CaptureStep \/ DriverStep \/ SamplerStep

-----------------------------------------------------------------------------
(* Properties of the teardown (Spec) *)

(* C16: when client.disconnect() is called, and from then on, the Driver  *)
(* and the Sampler have terminated and Stream Capture is not running: no  *)
(* activity is issuing, or blocked in, a simulator call.                  *)
C16_ActivitiesEndedAtRelease ==
    (pc = "disconnect" \/ disconnects > 0)
    => (drvPc \notin Running /\ smpPc \notin Running /\ capPc \notin Running)

-----------------------------------------------------------------------------
(* Properties of the ordered-subsequence runner (Spec) *)

(* C17: a graded v1 run exits with status 0 when the golden lines are an  *)
(* ordered subsequence of the captured lines and with status 1 when they  *)
(* are not.                                                               *)
C17_V1ExitReflectsVerdict ==
    (runner = "v1" /\ graded)
    => /\ pc = "exited"
       /\ exitCode = (IF Embeds(expSerial, captured) THEN 0 ELSE 1)

-----------------------------------------------------------------------------
(* Properties of the join after the waiting phase (SpecLive) *)

(* C18: once the waiting phase has ended, the join of the Driver and the  *)
(* Sampler ends whether or not the simulated clock advances any further:  *)
(* a task still blocked in wait_until_simulation_time is cancelled, and   *)
(* the run goes on to the release of the connection and to grading.       *)
C18_JoinEndsWithoutClock ==
    (pc = "gather" /\ (timedOut \/ done_event)) ~> (pc # "gather")

-----------------------------------------------------------------------------
(* Properties of the capture log (Spec) *)

(* a delivered line as it is logged: without its line end *)
LoggedLine(raw) == RStrip(raw, { "CR", "LF" })

(* the characters artifacts/serial.txt holds for the delivered lines s *)
RECURSIVE LoggedChars(_)
LoggedChars(s) ==
    IF s = << >> THEN << >>
    ELSE LoggedLine(Head(s)) \o << "LF" >> \o LoggedChars(Tail(s))

(* C19: the capture log holds exactly the lines delivered so far, in      *)
(* arrival order, each once, the sentinel line included; no line is       *)
(* delivered after a sentinel line, and nothing is logged by a runner     *)
(* before its capture has started.                                        *)
C19_LogIsDeliveredPrefix ==
    /\ runner = "v2" => /\ serialFile = LoggedChars(delivered)
                        /\ captured = << >>
                        /\ "serial" \notin artifacts => delivered = << >>
    /\ runner = "v1" => /\ captured = [ i \in 1..Len(delivered) |->
                                          LoggedLine(delivered[i]) ]
                        /\ serialFile = << >>
    /\ runner = "v3" => delivered = << >> /\ serialFile = << >>
    /\ \A i \in 1..(Len(delivered) - 1) : ~IsSentinelRaw(delivered[i])
    /\ capPc = "done" => IsSentinelRaw(delivered[Len(delivered)])

(* v2: a line and then the sentinel, both in the log, the capture ended *)
C19_Witness ==
    /\ runner = "v2" /\ capPc = "done"
    /\ delivered = << << "h", "i", "LF" >>,
                      << "SP", "d", "o", "n", "e", "CR", "LF" >> >>
    /\ serialFile = << "h", "i", "LF", "SP", "d", "o", "n", "e", "LF" >>

-----------------------------------------------------------------------------
(* Properties of the probe log (SpecSampler) *)

(* the timestamps all of whose probes have been read *)
RowsRead == IF NumProbes = 0 THEN smpK - 1 ELSE Len(reads) \div NumProbes

(* C20: the probe log is the header row followed by complete rows only,   *)
(* one for each of the first timestamps of the schedule, in order; the    *)
(* cells of a row whose reads are under way, or were cut short by a       *)
(* cancellation or a failed wait, are not in the file.                    *)
C20_ProbeLogWellFormed ==
    /\ "probes" \notin artifacts => probesFile = << >>
    /\ "probes" \in artifacts
       => /\ probesFile # << >>
          /\ probesFile[1] = << "time_s" >> \o PROBES
          /\ Len(probesFile) - 1 <= Len(probe_times)
          /\ Len(probesFile) - 1 = RowsRead
          /\ \A k \in 1..(Len(probesFile) - 1) :
                /\ Len(probesFile[k + 1]) = 1 + NumProbes
                /\ probesFile[k + 1][1] = Fmt6(probe_times[k])
                /\ \A p \in 1..NumProbes :
                      probesFile[k + 1][p + 1] \in PinValues \cup { ERR }
    /\ Len(row) <= NumProbes

(* the Sampler cancelled between the two reads of its second row: the log *)
(* holds the header and the first row                                     *)
C20_Witness ==
    /\ smpPc = "cancelled" /\ NumProbes = 2 /\ Len(probe_times) = 2
    /\ smpK = 2 /\ Len(row) = 2
    /\ Len(probesFile) = 2 /\ Len(probesFile[2]) = 3

-----------------------------------------------------------------------------
(* Properties of the interleaving of Driver and Sampler (SpecTasks) *)

(* the Sampler has read some probe of the current row and has more to read *)
MidRow == smpPc = "read" /\ Len(row) >= 2

(* C21: read_pin does not suspend the Sampler, so the Driver issues no    *)
(* set_control call between two reads of one row: all values of a row are *)
(* read with no control change in between.                                *)
C21_NoControlWithinRow ==
    [][Len(ctrlCalls') > Len(ctrlCalls) => ~MidRow]_vars

-----------------------------------------------------------------------------
(* Failures of the calls made by the Driver and the Sampler *)

(* some set_control, read_pin or wait_until_simulation_time call of the   *)
(* Driver or the Sampler has raised                                       *)
CallFailed ==
    \/ drvWaitFailed \/ ctrlFailed
    \/ drvPc = "failed" \/ smpPc = "failed"
    \/ \E j \in 1..Len(reads) : reads[j][3] = FAIL

(* C22: a failure of one external call inside the Driver or the Sampler   *)
(* does not abort the run: while the main coroutine joins the two         *)
(* activities after such a failure, its step neither ends the process nor *)
(* cancels the other activity; it goes on to release the connection.      *)
C22_CallFailureDoesNotAbort ==
    [][(pc = "gather" /\ CallFailed)
          => /\ pc' \in { "gather", "disconnect" }
             /\ drvPc' = "cancelled" => drvPc = "cancelled"
             /\ smpPc' = "cancelled" => smpPc = "cancelled"]_vars

-----------------------------------------------------------------------------
(* Properties of the artifacts at grading (Spec) *)

(* the main coroutine is about to read the artifacts, or has read them *)
GradingBegun == pc = "grade" \/ graded

(* the task that writes each log that exists has terminated, which closes *)
(* the file                                                               *)
WritersEnded ==
    /\ "serial" \in artifacts => capPc \in Finished
    /\ "probes" \in artifacts => smpPc \in Finished

(* C23: grading reads a log only after the activity that writes it has    *)
(* terminated and closed it; no write to the capture log or to the probe  *)
(* log occurs once grading has begun; and each log has one writer: only   *)
(* steps of Stream Capture change the capture log, only steps of the      *)
(* Sampler change the probe log.                                          *)
C23_LogsReadAfterWritersEnd ==
    /\ [](GradingBegun => WritersEnded)
    /\ [][/\ GradingBegun => UNCHANGED << serialFile, probesFile >>
          /\ serialFile' # serialFile => CaptureStep
          /\ probesFile' # probesFile => SamplerStep]_vars

(* a v2 run graded on a capture log and a probe log that both hold data,  *)
(* each written by a task that ran to its end                             *)
C23_Witness ==
    /\ graded /\ runner = "v2"
    /\ capPc = "done" /\ smpPc = "done"
    /\ serialFile # << >> /\ Len(probesFile) >= 2
    /\ { "serial", "probes" } \subseteq artifacts

=============================================================================
